---------------------------- MODULE Spec2Model ----------------------------
(* A model of src/src/visualizers/updateDiagramStyle.ts: the Style Resolver  *)
(* (updateDiagramStyle and its helpers) and the Panel Controller             *)
(* (DiagramPanelController: contentProcessor, loadDiagramDefinition,         *)
(* initializeMermaid, shouldHideLegendItem, getLegendItems).                 *)
(*                                                                         *)
(* Strings are sequences of one-character strings, so that equality,         *)
(* String.includes and the init-block regular expression are computed and    *)
(* not assumed.  Numbers that may be NaN or null are records.                *)
EXTENDS Integers, Sequences, FiniteSets, TLC

VARIABLES
  \* ---- getLegendItems (SpecLegend)
  data,          \* props.data as the legend reads it: label and value pairs
  legend,        \* options.legend: hideEmpty, hideZero
  legendItems,   \* what getLegendItems returned ("unset" before the call)
  \* ---- processDiagramSeriesModel (SpecLookup)
  lkSvg,         \* the svg subtree handed to processDiagramSeriesModel
  lkIndicator,   \* the indicator handed to it
  lkOptions,     \* options.useBackground
  lkResult,      \* its outcome ("unset" before the call)
  \* ---- updateDiagramStyle (SpecStyle)
  stEl,          \* the container element handed to updateDiagramStyle
  stModels,      \* the series models
  stOptions,     \* the diagram options (composites, useBackground, ...)
  stResult,      \* its outcome ("unset" before the call)
  \* ---- initializeMermaid (Spec, SpecRace)
  npasses,       \* how many render passes the host triggers
  props,         \* props[p]: the props closed over by pass p
  pc,            \* pc[p]: where pass p's async function stands
  diagramDefinition, \* diagramDefinition[p]: what loadDiagramDefinition gave
  trace,         \* trace[p]: the calls pass p has made, in order
  container,     \* diagramRef.current
  writes         \* the operations on the container, in order: which pass
                 \* assigned its innerHTML ("svg", "error") or ran the
                 \* Style Resolver on it ("style")

legendVars == <<data, legend, legendItems>>
lookupVars == <<lkSvg, lkIndicator, lkOptions, lkResult>>
styleVars == <<stEl, stModels, stOptions, stResult>>
passVars == <<npasses, props, pc, diagramDefinition, trace, container, writes>>
vars == <<legendVars, lookupVars, styleVars, passVars>>

-----------------------------------------------------------------------------
(* Bounds.                                                                   *)
MaxPairs == 3        \* value pairs per series (legend)
MaxElems == 2        \* elements in the svg handed to the lookup
MaxIndicators == 3   \* series models handed to updateDiagramStyle
MaxPasses == 2       \* render passes in flight together

-----------------------------------------------------------------------------
(* Sequences and strings.                                                    *)
SeqsUpTo(S, n) == UNION {[1..k -> S] : k \in 0..n}

Range(s) == {s[i] : i \in 1..Len(s)}

Indices(s) == [i \in 1..Len(s) |-> i]

RECURSIVE Flatten(_)
Flatten(ss) == IF ss = <<>> THEN <<>> ELSE Head(ss) \o Flatten(Tail(ss))

RECURSIVE SumSeq(_)
SumSeq(s) == IF s = <<>> THEN 0 ELSE Head(s) + SumSeq(Tail(s))

\* s occurs in t at offset i (0-based offset)
OccursAt(s, t, i) == /\ i + Len(s) <= Len(t)
                     /\ \A k \in 1..Len(s) : t[i + k] = s[k]

\* String.prototype.includes
Includes(t, s) == \E i \in 0..Len(t) : OccursAt(s, t, i)

\* Idiom: CHOOSE y \in {F(x) : x \in {e}} : TRUE is F(e) with e evaluated
\* once (a const binding); it is used where a value is read many times.


-----------------------------------------------------------------------------
(* Legend derivation: shouldHideLegendItem, getLegendItems.                  *)

\* The value of a value pair, current[1]: null or a number.
Null == [null |-> TRUE, v |-> 0]
Val(n) == [null |-> FALSE, v |-> n]
PairValues == {Null} \cup {Val(n) : n \in {-1, 0, 1}}

\* current[1] || 0
OrZero(x) == IF x.null THEN 0 ELSE x.v

\* seriesData.reduce((acc, current) => acc + (current[1] || 0), 0)
RECURSIVE SumFold(_, _)
SumFold(seriesData, acc) ==
  IF seriesData = <<>> THEN acc
  ELSE SumFold(Tail(seriesData), acc + OrZero(Head(seriesData)))

\* seriesData.reduce((acc, current) => acc && current[1] !== null, true)
RECURSIVE NonNullFold(_, _)
NonNullFold(seriesData, acc) ==
  IF seriesData = <<>> THEN acc
  ELSE NonNullFold(Tail(seriesData), acc /\ ~Head(seriesData).null)

shouldHideLegendItem(seriesData, hideEmpty, hideZero) ==
  LET isZeroOnlySeries == SumFold(seriesData, 0) = 0
      isNullOnlySeries == ~NonNullFold(seriesData, TRUE)
  IN  (hideEmpty /\ isNullOnlySeries) \/ (hideZero /\ isZeroOnlySeries)

\* data.reduce((acc, s) => shouldHide(...) ? acc : acc.concat([item]), [])
RECURSIVE getLegendItemsFrom(_, _, _)
getLegendItemsFrom(ss, lg, acc) ==
  IF ss = <<>> THEN acc
  ELSE LET s == Head(ss)
       IN  getLegendItemsFrom(Tail(ss), lg,
             IF shouldHideLegendItem(s.data, lg.hideEmpty, lg.hideZero)
             THEN acc
             ELSE acc \o <<[label |-> s.label, disabled |-> ~s.isVisible]>>)

getLegendItems(ss, lg) == getLegendItemsFrom(ss, lg, <<>>)

\* The series the legend is derived from: one of any shape up to MaxPairs
\* pairs, optionally followed by a second, short one.
LegendSeries ==
  {<<[label |-> <<"s", "1">>, isVisible |-> TRUE, data |-> d]>> :
      d \in SeqsUpTo(PairValues, MaxPairs)}
  \cup
  {<<[label |-> <<"s", "1">>, isVisible |-> TRUE, data |-> d],
     [label |-> <<"s", "2">>, isVisible |-> FALSE, data |-> e]>> :
      d \in SeqsUpTo(PairValues, MaxPairs), e \in SeqsUpTo(PairValues, 1)}

LegendIdle ==
  /\ data = <<>>
  /\ legend = [hideEmpty |-> FALSE, hideZero |-> FALSE]
  /\ legendItems = [called |-> FALSE, items |-> <<>>]

LegendInit ==
  /\ data \in LegendSeries
  /\ legend \in [hideEmpty : BOOLEAN, hideZero : BOOLEAN]
  /\ legendItems = [called |-> FALSE, items |-> <<>>]

\* The component renders: <VizLegend items={getLegendItems()} .../>
GetLegendItems ==
  /\ ~legendItems.called
  /\ legendItems' = [called |-> TRUE, items |-> getLegendItems(data, legend)]
  /\ UNCHANGED <<data, legend>>
  /\ UNCHANGED <<lookupVars, styleVars, passVars>>
-----------------------------------------------------------------------------
(* The rendered svg as the lookups see it: its elements in document order.   *)
(*   tag    "g" a shape group of class node, "span", "div", "text", "rect"   *)
(*   dataId the data-id attribute (<<>>: none)                               *)
(*   hasDiv a "g" holds a label div, whose text is the field text            *)
(*   text   the element's text content                                       *)
(*   datum  the element's bound d3 datum (__data__) is an SVGGraphicsElement *)
(*   cls    class diagram-value; fill, color, bg, margin: style properties   *)
(*   parent the identity of the element's parent node                        *)
(* A "div" element stands outside every .node group.  Geometry (resizeGrouping: the      *)
(* transform, width and height attributes) is read by no lookup and is not   *)
(* part of the state.                                                        *)
Elem(tag, dataId, hasDiv, text, datum, parent) ==
  [tag |-> tag, dataId |-> dataId, hasDiv |-> hasDiv, text |-> text,
   datum |-> datum, parent |-> parent, cls |-> FALSE, fill |-> "",
   color |-> "", bg |-> "", margin |-> FALSE]

InsertAfter(dom, i, elems) == SubSeq(dom, 1, i) \o elems \o SubSeq(dom, i + 1, Len(dom))

\* The last child of the parent of dom[i]
LastOfParent(dom, i) ==
  CHOOSE q \in 1..Len(dom) :
    /\ dom[q].parent = dom[i].parent
    /\ \A r \in 1..Len(dom) : dom[r].parent = dom[i].parent => r <= q

\* A selection's indices after k elements were inserted behind index q
Shift(sel, q, k) == [j \in 1..Len(sel) |-> IF sel[j] > q THEN sel[j] + k ELSE sel[j]]

\* The indices of dom, in document order, whose element satisfies Test
Matching(dom, Test(_)) == SelectSeq(Indices(dom), LAMBDA i : Test(dom[i]))

Quote == "\""

\* container.querySelector(`[data-id="${id}"]`): the id is pasted into the
\* selector unescaped, so an id holding a double quote makes a selector that
\* does not parse and querySelector throws a SyntaxError.
selectElementById(dom, id) ==
  IF Quote \in Range(id)
  THEN [threw |-> TRUE, sel |-> <<>>]
  ELSE LET hit == Matching(dom, LAMBDA e : e.dataId # <<>> /\ e.dataId = id)
       IN  [threw |-> FALSE, sel |-> IF hit = <<>> THEN <<>> ELSE <<Head(hit)>>]

selectElementByEdgeLabel(dom, id) ==
  Matching(dom, LAMBDA e : e.tag = "span" /\ e.text = id)

\* divs whose text is the alias; of the first one, the closest .node
selectDivElementByAlias(dom, alias) ==
  LET targetElement ==
        Matching(dom, LAMBDA e : /\ \/ e.tag = "div"
                                    \/ e.tag = "g" /\ e.hasDiv
                                 /\ e.text = alias)
  IN  IF targetElement # <<>> /\ dom[Head(targetElement)].tag = "g"
      THEN <<Head(targetElement)>>
      ELSE <<>>

selectTextElementByAlias(dom, alias) ==
  Matching(dom, LAMBDA e : e.tag = "text" /\ e.text = alias)

selectTextElementContainingAlias(dom, alias) ==
  Matching(dom, LAMBDA e : e.tag = "text" /\ Includes(e.text, alias))

\* formattedValueToString: the display value's text (no prefix, no suffix)
formattedValueToString(indicator) == indicator.text

-----------------------------------------------------------------------------
(* The painters.                                                             *)

\* targetElement is one shape group.  Its label div, when it has one, gets
\* the class, the value as a trailing line and, for a composite, the
\* original name; the colour goes to the shapes or to the div.
styleD3Shapes(dom, targetElement, indicator, useBackground) ==
  LET i == Head(targetElement)
      e == dom[i]
      content == e.text \o <<" ">> \o formattedValueToString(indicator)
                 \o (IF indicator.isComposite THEN indicator.originalName ELSE <<>>)
      e1 == IF e.hasDiv
            THEN [e EXCEPT !.cls = TRUE, !.text = content,
                           !.margin = @ \/ indicator.isComposite]
            ELSE e
      e2 == IF indicator.color = "" THEN e1
            ELSE IF useBackground THEN [e1 EXCEPT !.fill = indicator.color]
            ELSE IF e.hasDiv THEN [e1 EXCEPT !.color = indicator.color]
            ELSE e1
  IN  [dom EXCEPT ![i] = e2]

\* A br and a span holding the value are appended to the parent of the
\* first selected span.  (No span of the model stands inside a
\* .node.flowchart-label group, so fetchParentsUntilShapeElementFound is null.)
styleFlowChartEdgeLabel(dom, targetElement, indicator, useBackground) ==
  LET i == Head(targetElement)
      v0 == [Elem("span", <<>>, FALSE, formattedValueToString(indicator), FALSE,
                  dom[i].parent) EXCEPT !.cls = TRUE]
      v == IF indicator.color = "" THEN v0
           ELSE IF useBackground THEN [v0 EXCEPT !.bg = indicator.color]
           ELSE [v0 EXCEPT !.color = indicator.color]
  IN  InsertAfter(dom, LastOfParent(dom, i), <<v>>)

\* targetElement.each((el) => ...): d3 hands the callback the element's
\* datum, not the element, so getBBox is called on the datum; with no
\* graphics element bound as datum the call throws a TypeError.
RECURSIVE styleTextEdgeLabelEach(_, _, _, _)
styleTextEdgeLabelEach(dom, rest, indicator, useBackground) ==
  IF rest = <<>> THEN [dom |-> dom, threw |-> FALSE]
  ELSE LET i == Head(rest)
           q == LastOfParent(dom, i)
           rect == [Elem("rect", <<>>, FALSE, <<>>, FALSE, dom[i].parent)
                      EXCEPT !.fill = IF useBackground THEN indicator.color ELSE ""]
           textNode == [Elem("text", <<>>, FALSE, formattedValueToString(indicator),
                             FALSE, dom[i].parent)
                          EXCEPT !.color = IF useBackground THEN "" ELSE indicator.color]
       IN  IF ~dom[i].datum THEN [dom |-> dom, threw |-> TRUE]
           ELSE IF indicator.color = ""
           THEN styleTextEdgeLabelEach(dom, Tail(rest), indicator, useBackground)
           ELSE CHOOSE out \in
                  {styleTextEdgeLabelEach(next.dom, next.rest, indicator, useBackground) :
                     next \in {[dom |-> InsertAfter(dom, q, <<rect, textNode>>),
                                rest |-> Shift(Tail(rest), q, 2)]}} : TRUE

styleTextEdgeLabel(dom, targetElement, indicator, useBackground) ==
  styleTextEdgeLabelEach(dom, targetElement, indicator, useBackground)

\* Every selected text element gets a tspan holding the value.
styleSequenceDiagramEdgeLabel(dom, targetElement, indicator, useBackground) ==
  [i \in 1..Len(dom) |->
     IF i \in Range(targetElement)
     THEN LET e1 == [dom[i] EXCEPT !.cls = TRUE,
                                   !.text = @ \o formattedValueToString(indicator)]
          IN  IF indicator.color = "" THEN e1
              ELSE IF useBackground THEN [e1 EXCEPT !.bg = indicator.color]
              ELSE [e1 EXCEPT !.color = indicator.color]
     ELSE dom[i]]

\* What processDiagramSeriesModel leaves: the svg, the painters it applied
\* (by the number of their lookup, in call order) and whether it threw.
Processed(svg, fired, threw) == [svg |-> svg, fired |-> fired, threw |-> threw]

processDiagramSeriesModel(svg, indicator, options) ==
  LET key == indicator.metricName
      byId == selectElementById(svg, key)
      byEdgeLabel == selectElementByEdgeLabel(svg, key)
      byDivAlias == selectDivElementByAlias(svg, key)
      byTextAlias == selectTextElementByAlias(svg, key)
      byTextContaining == selectTextElementContainingAlias(svg, key)
      textEdge == styleTextEdgeLabel(svg, byTextAlias, indicator, options.useBackground)
  IN  IF byId.threw THEN Processed(svg, <<>>, TRUE)
      ELSE IF byId.sel # <<>>
      THEN Processed(styleD3Shapes(svg, byId.sel, indicator, options.useBackground),
                     <<1>>, FALSE)
      ELSE IF byEdgeLabel # <<>>
      THEN Processed(styleFlowChartEdgeLabel(svg, byEdgeLabel, indicator,
                                             options.useBackground), <<2>>, FALSE)
      ELSE IF byDivAlias # <<>>
      THEN Processed(styleD3Shapes(svg, byDivAlias, indicator, options.useBackground),
                     <<3>>, FALSE)
      ELSE IF byTextAlias # <<>>
      THEN Processed(textEdge.dom, <<4>>, textEdge.threw)
      ELSE IF byTextContaining # <<>>
      THEN Processed(styleSequenceDiagramEdgeLabel(svg, byTextContaining, indicator,
                                                   options.useBackground), <<5>>, FALSE)
      ELSE Processed(svg, <<>>, FALSE)

-----------------------------------------------------------------------------
(* Metric indicators and the composite reduction.                            *)

\* DisplayValue.numeric: a number or NaN
NaN == [nan |-> TRUE, val |-> 0]
Num(n) == [nan |-> FALSE, val |-> n]

\* A display value of a series (m.info[k])
DisplayValue(title, numeric, text, color) ==
  [title |-> title, numeric |-> numeric, text |-> text, color |-> color]

\* models.filter(custom).flatMap(find the display value named valueName)
\*       .filter(non-null): one indicator per series that has the value
reduceModels(models) ==
  LET kept == SelectSeq(models, LAMBDA m : m.custom)
      found(m) == SelectSeq(m.info, LAMBDA dv : dv.title = m.valueName)
      indicatorOf(m) ==
        IF found(m) = <<>> THEN <<>>
        ELSE LET dv == Head(found(m))
             IN  <<[metricName |-> m.label, valueName |-> dv.title,
                    numeric |-> dv.numeric, text |-> dv.text, color |-> dv.color,
                    isComposite |-> FALSE, originalName |-> <<>>]>>
  IN  Flatten([k \in 1..Len(kept) |-> indicatorOf(kept[k])])

\* c.members.flatMap((m) => indicators.filter((i) => i.metricName === m)):
\* the candidates, as positions in indicators (the objects themselves)
candidatesOf(indicators, c) ==
  Flatten([k \in 1..Len(c.members) |->
             SelectSeq(Indices(indicators),
                       LAMBDA i : indicators[i].metricName = c.members[k])])

\* Number.isNaN(x.numeric) ? 0 : x.numeric
numericOrZero(indicator) == IF indicator.numeric.nan THEN 0 ELSE indicator.numeric.val

\* A faulty reducer that ignores showLowestValue and always keeps the lower
\* value: C1 tells it from reduceStep
reduceStep_ignoresMode(indicators, c, prev, current) ==
  IF numericOrZero(indicators[current]) < numericOrZero(indicators[prev])
  THEN current ELSE prev

\* A faulty reducer that keeps the accumulator on every tie: C2 tells it
\* from reduceStep
reduceStep_keepsEarliest(indicators, c, prev, current) ==
  LET previousValue == numericOrZero(indicators[prev])
      currentValue == numericOrZero(indicators[current])
  IN  IF c.showLowestValue
      THEN (IF currentValue < previousValue THEN current ELSE prev)
      ELSE (IF currentValue > previousValue THEN current ELSE prev)

\* The reducer callback: which of prev and current is kept
reduceStep(indicators, c, prev, current) ==
  LET previousValue == numericOrZero(indicators[prev])
      currentValue == numericOrZero(indicators[current])
      currentIsLower == currentValue < previousValue
  IN  IF c.showLowestValue
      THEN (IF currentIsLower THEN current ELSE prev)
      ELSE (IF currentIsLower THEN prev ELSE current)

\* candidates.reduce(callback): no initial value, so the first candidate is
\* the first accumulator
RECURSIVE reduceFrom(_, _, _, _)
reduceFrom(indicators, c, rest, prev) ==
  IF rest = <<>> THEN prev
  ELSE CHOOSE out \in
         {reduceFrom(indicators, c, Tail(rest), kept) :
            kept \in {reduceStep(indicators, c, prev, Head(rest))}} : TRUE

\* One composite of composites.map(...): its candidates, its winner
\* (0: null, no candidate) and the indicators afterwards.  The winner is
\* relabelled in place, so a later composite filters the relabelled objects.
reduceComposite(indicators, c) ==
  LET candidates == candidatesOf(indicators, c)
      compositeIndicator == reduceFrom(indicators, c, Tail(candidates), Head(candidates))
  IN  IF candidates # <<>>
      THEN CHOOSE out \in
             {[indicators |->
                 [indicators EXCEPT ![w] =
                    [@ EXCEPT !.isComposite = TRUE,
                              !.originalName = indicators[w].metricName,
                              !.metricName = c.name]],
               step |-> [candidates |-> candidates, winner |-> w]] :
                w \in {compositeIndicator}} : TRUE
      ELSE [indicators |-> indicators, step |-> [candidates |-> <<>>, winner |-> 0]]

RECURSIVE reduceCompositesFrom(_, _, _)
reduceCompositesFrom(indicators, rest, steps) ==
  IF rest = <<>> THEN [indicators |-> indicators, steps |-> steps]
  ELSE CHOOSE out \in
         {reduceCompositesFrom(r.indicators, Tail(rest), Append(steps, r.step)) :
            r \in {reduceComposite(indicators, Head(rest))}} : TRUE

\* .filter((c) => c != null): the returned array holds the winners, as
\* positions in indicators
reduceComposites(indicators, composites) ==
  CHOOSE out \in
    {[indicators |-> r.indicators, steps |-> r.steps,
      result |-> SelectSeq([k \in 1..Len(r.steps) |-> r.steps[k].winner],
                           LAMBDA w : w # 0)] :
       r \in {reduceCompositesFrom(indicators, composites, <<>>)}} : TRUE

-----------------------------------------------------------------------------
(* updateDiagramStyle.                                                       *)

\* The container element (diagramRef.current):
\*   html     what its innerHTML holds: "none", "svg" or "error"
\*   svg      the elements of the svg, when it holds one
\*   err      the error the error markup shows
\*   maxed    the svg carries max-width/max-height 100%
\*   styles   the style elements appended behind the svg
\*   overflow the container's own style attribute is overflow-y: scroll
Container(html, svg, err) ==
  [html |-> html, svg |-> svg, err |-> err, maxed |-> FALSE, styles |-> <<>>,
   overflow |-> FALSE]

\* indicators.forEach((indicator) => processDiagramSeriesModel(svg, ...)),
\* stopped by the first call that throws.  log gets one entry per call.
RECURSIVE processEach(_, _, _, _, _)
processEach(svg, rest, options, phase, log) ==
  IF rest = <<>> THEN [svg |-> svg, log |-> log, threw |-> FALSE]
  ELSE CHOOSE out \in
         {LET entry == [ev |-> phase, key |-> Head(rest).metricName,
                        fired |-> r.fired, id |-> <<>>]
          IN  IF r.threw
              THEN [svg |-> r.svg, log |-> Append(log, entry), threw |-> TRUE]
              ELSE processEach(r.svg, Tail(rest), options, phase, Append(log, entry)) :
            r \in {processDiagramSeriesModel(svg, Head(rest), options)}} : TRUE

\* An entry of a log of calls: what was called, with which text or key and
\* which diagram id, and (for a processDiagramSeriesModel call) the painters
\* it applied
Event(ev, key, id) == [ev |-> ev, key |-> key, fired |-> <<>>, id |-> id]

\* What updateDiagramStyle leaves: the container, the log of its calls,
\* whether it threw, the indicators and the steps of the reduction
Resolved(el, log, threw, indicators, steps) ==
  [el |-> el, log |-> log, threw |-> threw, indicators |-> indicators, steps |-> steps]

\* injectCustomStyle(el, options.style, diagramId)
injectCustomStyle(el, diagramStyle, diagramId) ==
  [el EXCEPT !.styles = Append(@, [style |-> diagramStyle, id |-> diagramId])]

\* A faulty resolver that injects the custom style before the composites
\* are reduced and painted: C9 tells it from resolveComposites
resolveComposites_styleFirst(el, indicators, direct, options, diagramId) ==
  CHOOSE out \in
    {CHOOSE out2 \in
       {Resolved(injectCustomStyle([el EXCEPT !.svg = composite.svg],
                                   options.style, diagramId),
                 composite.log, composite.threw, reduced.indicators, reduced.steps) :
          composite \in
            {processEach(direct.svg,
                         [j \in 1..Len(reduced.result) |->
                            reduced.indicators[reduced.result[j]]],
                         options, "composite",
                         direct.log \o <<Event("injectCustomStyle", <<>>, diagramId),
                                         Event("reduceComposites", <<>>, <<>>)>>)}} :
         TRUE :
       reduced \in {reduceComposites(indicators, options.composites)}} : TRUE

\* reduceComposites(indicators, composites).forEach(process), then
\* injectCustomStyle
resolveComposites(el, indicators, direct, options, diagramId) ==
  CHOOSE out \in
    {CHOOSE out2 \in
       {IF composite.threw
        THEN Resolved([el EXCEPT !.svg = composite.svg], composite.log, TRUE,
                      reduced.indicators, reduced.steps)
        ELSE Resolved(injectCustomStyle([el EXCEPT !.svg = composite.svg],
                                        options.style, diagramId),
                      Append(composite.log, Event("injectCustomStyle", <<>>, diagramId)),
                      FALSE, reduced.indicators, reduced.steps) :
          composite \in
            {processEach(direct.svg,
                         [j \in 1..Len(reduced.result) |->
                            reduced.indicators[reduced.result[j]]],
                         options, "composite",
                         Append(direct.log, Event("reduceComposites", <<>>, <<>>)))}} :
         TRUE :
       reduced \in {reduceComposites(indicators, options.composites)}} : TRUE

\* indicators.forEach(process), then the composites
resolveIndicators(el, indicators, options, diagramId) ==
  CHOOSE out \in
    {IF direct.threw
     THEN Resolved([el EXCEPT !.svg = direct.svg], direct.log, TRUE, indicators, <<>>)
     ELSE resolveComposites(el, indicators, direct, options, diagramId) :
       direct \in {processEach(el.svg, indicators, options, "direct", <<>>)}} : TRUE

updateDiagramStyle(el, models, options, diagramId) ==
  CHOOSE out \in
    {IF el.html # "svg"
     THEN Resolved(el, <<>>, FALSE, indicators, <<>>)
     ELSE resolveIndicators(IF options.maxWidth THEN [el EXCEPT !.maxed = TRUE]
                            ELSE [el EXCEPT !.overflow = TRUE],
                            indicators, options, diagramId) :
       indicators \in {reduceModels(models)}} : TRUE

-----------------------------------------------------------------------------
(* Inputs of the Style Resolver.                                             *)

NameChars == <<"x", "y", "z", "w", "u", "t">>
NameOf(i) == <<NameChars[i]>>

\* numeric values: NaN, a negative number and the 5, 2, 8 of the example
NumericValues == {NaN, Num(-1), Num(2), Num(5), Num(8)}

\* Series model i: its label is name i, and it carries the display value
\* that its field configuration names
SeriesModel(i, numeric) ==
  [label |-> NameOf(i), custom |-> TRUE, valueName |-> <<"l">>,
   info |-> <<DisplayValue(<<"l">>, numeric, <<"v">>, "red")>>]

\* A series whose field has no custom configuration yields no indicator.
Unconfigured(i) == [label |-> NameOf(i), custom |-> FALSE, valueName |-> <<>>,
                    info |-> <<>>]

\* MaxIndicators series with values from V, the first one possibly
\* unconfigured
ModelsOver(V) ==
  {[i \in 1..MaxIndicators |-> IF absent /\ i = 1 THEN Unconfigured(i)
                               ELSE SeriesModel(i, val[i])] :
     val \in [1..MaxIndicators -> V], absent \in BOOLEAN}

Composite(name, members, showLowestValue) ==
  [name |-> name, members |-> members, showLowestValue |-> showLowestValue]

\* The sequences without repetition over the set S
Arrangements(S) ==
  {s \in SeqsUpTo(S, Cardinality(S)) : \A i, j \in 1..Len(s) : s[i] = s[j] => i = j}

\* The member lists of up to n of the series names, in any order
MembersUpTo(n) ==
  {s \in Arrangements({NameOf(i) : i \in 1..MaxIndicators}) : Len(s) \in 1..n}

\* The member lists of a second composite: it shares members with the
\* first or names the first composite as a member
SecondMembers ==
  {s \in Arrangements({NameOf(1), NameOf(2), <<"A">>}) : Len(s) \in 1..2}

\* options.composites: none, or one composite A
SingleComposites ==
  {<<>>} \cup {<<Composite(<<"A">>, a, low)>> : a \in MembersUpTo(3), low \in BOOLEAN}

\* options.composites: a composite A followed by a composite B
PairComposites ==
  {<<Composite(<<"A">>, a, low), Composite(<<"B">>, b, low2)>> :
     a \in MembersUpTo(2), low \in BOOLEAN, b \in SecondMembers, low2 \in BOOLEAN}

\* The series of the data frames
StyleModels == ModelsOver(NumericValues)

\* The series of the data frames, over fewer values
PairModels == ModelsOver({NaN, Num(2), Num(5)})

\* The svg the resolver paints in SpecStyle: a shape for x, an edge label y,
\* an aliased shape A, a sequence-diagram text holding B
StyleSvg ==
  <<Elem("g", NameOf(1), TRUE, NameOf(1), FALSE, 1),
    Elem("span", <<>>, FALSE, NameOf(2), FALSE, 2),
    Elem("g", <<"n">>, TRUE, <<"A">>, FALSE, 3),
    Elem("text", <<>>, FALSE, <<"B", "!">>, FALSE, 4)>>

DiagramOptions(composites, useBackground, maxWidth) ==
  [composites |-> composites, useBackground |-> useBackground,
   maxWidth |-> maxWidth, style |-> "css"]

Unset == [called |-> FALSE, el |-> Container("none", <<>>, ""), log |-> <<>>,
          threw |-> FALSE, indicators |-> <<>>, steps |-> <<>>]

StyleIdle ==
  /\ stEl = Container("none", <<>>, "")
  /\ stModels = <<>>
  /\ stOptions = DiagramOptions(<<>>, FALSE, FALSE)
  /\ stResult = Unset

StyleInit ==
  /\ stEl = Container("svg", StyleSvg, "")
  /\ \/ /\ stModels \in StyleModels
        /\ stOptions \in {DiagramOptions(c, TRUE, FALSE) : c \in SingleComposites}
     \/ /\ stModels \in PairModels
        /\ stOptions \in {DiagramOptions(c, TRUE, FALSE) : c \in PairComposites}
  /\ stResult = Unset

\* updateDiagramStyle(el, models, options, diagramId)
UpdateDiagramStyle ==
  /\ ~stResult.called
  /\ \E r \in {updateDiagramStyle(stEl, stModels, stOptions, <<"diagram-", "1">>)} :
       stResult' = [called |-> TRUE, el |-> r.el, log |-> r.log, threw |-> r.threw,
                    indicators |-> r.indicators, steps |-> r.steps]
  /\ UNCHANGED <<stEl, stModels, stOptions>>
  /\ UNCHANGED <<legendVars, lookupVars, passVars>>

-----------------------------------------------------------------------------
(* Inputs of processDiagramSeriesModel.                                      *)

LookupKeys == {<<"a">>, <<"b">>, <<"a", Quote>>}

LookupElems ==
  {Elem("g", <<"a">>, TRUE, <<"a">>, FALSE, 0),
   Elem("g", <<"a">>, FALSE, <<>>, FALSE, 0),
   Elem("g", <<"n">>, TRUE, <<"b">>, FALSE, 0),
   Elem("g", <<"a", Quote>>, TRUE, <<"n">>, FALSE, 0),
   Elem("span", <<>>, FALSE, <<"a">>, FALSE, 0),
   Elem("span", <<>>, FALSE, <<"a", Quote>>, FALSE, 0),
   Elem("div", <<>>, FALSE, <<"b">>, FALSE, 0),
   Elem("text", <<>>, FALSE, <<"a">>, TRUE, 0),
   Elem("text", <<>>, FALSE, <<"b">>, FALSE, 0),
   Elem("text", <<>>, FALSE, <<"a", "b">>, FALSE, 0)}

\* every element under a parent of its own
LookupSvgs ==
  {[i \in 1..Len(es) |-> [es[i] EXCEPT !.parent = i]] :
     es \in SeqsUpTo(LookupElems, MaxElems)}

LookupIndicators ==
  {[metricName |-> k, valueName |-> <<"l">>, numeric |-> Num(5), text |-> <<"5">>,
    color |-> c, isComposite |-> comp,
    originalName |-> IF comp THEN <<"o">> ELSE <<>>] :
     k \in LookupKeys, c \in {"", "red"}, comp \in BOOLEAN}

LookupUnset == [called |-> FALSE, svg |-> <<>>, fired |-> <<>>, threw |-> FALSE]

LookupIdle ==
  /\ lkSvg = <<>>
  /\ lkIndicator = [metricName |-> <<>>, valueName |-> <<>>, numeric |-> NaN,
                    text |-> <<>>, color |-> "", isComposite |-> FALSE,
                    originalName |-> <<>>]
  /\ lkOptions = DiagramOptions(<<>>, FALSE, FALSE)
  /\ lkResult = LookupUnset

LookupInit ==
  /\ lkSvg \in LookupSvgs
  /\ lkIndicator \in LookupIndicators
  /\ lkOptions \in {DiagramOptions(<<>>, b, FALSE) : b \in BOOLEAN}
  /\ lkResult = LookupUnset

\* processDiagramSeriesModel(svg, indicator, options)
ProcessDiagramSeriesModel ==
  /\ ~lkResult.called
  /\ \E r \in {processDiagramSeriesModel(lkSvg, lkIndicator, lkOptions)} :
       lkResult' = [called |-> TRUE, svg |-> r.svg, fired |-> r.fired,
                    threw |-> r.threw]
  /\ UNCHANGED <<lkSvg, lkIndicator, lkOptions>>
  /\ UNCHANGED <<legendVars, styleVars, passVars>>

-----------------------------------------------------------------------------
(* The Panel Controller: contentProcessor, loadDiagramDefinition,            *)
(* initializeMermaid.                                                        *)

\* content.match(/%%\{[\s\S]*?\}%%/): some "%%{" is followed by a "}%%"
HasInitBlock(content) ==
  \E i, j \in 0..Len(content) :
    /\ OccursAt(<<"%", "%", "{">>, content, i)
    /\ OccursAt(<<"}", "%", "%">>, content, j)
    /\ j >= i + 3

\* `%%{init: {'theme': '${baseTheme}', 'themeVariables': ${overrides}}}%%\n`
\* The base theme is one character ("D" dark, "B" base) and so is the merged
\* palette of the mode ("d" the dark overrides, "l" the light ones).
customTheme(theme) ==
  LET baseTheme == IF theme.isDark THEN "D" ELSE "B"
      overrides == IF theme.isDark THEN "d" ELSE "l"
  IN  <<"%", "%", "{", baseTheme, overrides, "}", "%", "%", "\n">>

\* A faulty contentProcessor that prepends the directive to every
\* definition: C7 tells it from contentProcessor
contentProcessor_alwaysPrepends(content, theme) == customTheme(theme) \o content

contentProcessor(content, theme) ==
  IF HasInitBlock(content) THEN content ELSE customTheme(theme) \o content

\* The host's interpolation: the dashboard variable "$" stands for "v"
replaceVariables(text) == [i \in 1..Len(text) |-> IF text[i] = "$" THEN "v" ELSE text[i]]

\* `diagram-${id}`
DiagramId(id) == <<"diagram-", id>>

\* A faulty write that leaves a container alone once it has content: C10
\* tells it from SetInnerHTML
SetInnerHTML_firstWins(el, html, svg, err) ==
  IF el.html = "none"
  THEN [el EXCEPT !.html = html, !.svg = svg, !.err = err, !.maxed = FALSE, !.styles = <<>>]
  ELSE el

\* diagramRef.current.innerHTML = svg | error markup: the children are
\* replaced, the element's own attributes stay
SetInnerHTML(el, html, svg, err) ==
  [el EXCEPT !.html = html, !.svg = svg, !.err = err, !.maxed = FALSE, !.styles = <<>>]

\* The part of a try block behind a resolved render: the svg is written and
\* the renderer's bindFunctions, if it gave one, is run.  bind is "none",
\* "ok" or "bindThrows".
Rendered(p, el, bind) ==
  LET written == SetInnerHTML(el, "svg", props[p].svg, "")
      innerHTML == <<Event("innerHTML", <<"svg">>, <<>>)>>
  IN  [el |-> written,
       events |-> innerHTML \o (IF bind = "none" THEN <<>>
                                ELSE <<Event("bindFunctions", <<>>, <<>>)>>),
       threw |-> bind = "bindThrows"]

\* updateDiagramStyle(diagramRef.current, data, options, diagramId), and the
\* outer catch when it throws
Styled(p, el) ==
  CHOOSE out \in
    {LET events == <<Event("updateDiagramStyle", <<>>, DiagramId(props[p].id))>> \o r.log
     IN  IF r.threw
         THEN [el |-> SetInnerHTML(r.el, "error", <<>>, "style"),
               events |-> events \o <<Event("innerHTML", <<"error", "style">>, <<>>)>>,
               dom |-> <<[pass |-> p, op |-> "style"], [pass |-> p, op |-> "error"]>>]
         ELSE [el |-> r.el, events |-> events, dom |-> <<[pass |-> p, op |-> "style"]>>] :
       r \in {updateDiagramStyle(el, props[p].data, props[p].options,
                                 DiagramId(props[p].id))}} : TRUE

\* The outcomes of mermaidAPI.render for pass p: it throws, or it resolves
\* and the diagram has no, a working or a throwing bindFunctions
Outcomes(p) == {"throw"} \cup props[p].binds

\* useEffect(() => { initializeMermaid() }): the pass starts, finds the
\* container mounted and calls loadDiagramDefinition
Trigger(p) ==
  /\ p <= npasses
  /\ pc[p] = "idle"
  /\ p > 1 => pc[p - 1] # "idle"
  /\ pc' = [pc EXCEPT ![p] = "loading"]
  /\ trace' = [trace EXCEPT ![p] = Append(@, Event("loadDiagramDefinition", <<>>, <<>>))]
  /\ UNCHANGED <<npasses, props, diagramDefinition, container, writes>>
  /\ UNCHANGED <<legendVars, lookupVars, styleVars>>

\* await loadDiagramDefinition() settles.  With a content url the fetch
\* answers ok or not; not ok is thrown, and the await stands before the try
\* block: the async function rejects and nothing else runs.  Otherwise the
\* definition is interpolated and the primary render is called.
LoadSettled(p) ==
  /\ pc[p] = "loading"
  /\ \E ok \in BOOLEAN :
       /\ ~props[p].contentUrl => ok
       /\ IF ~ok
          THEN /\ pc' = [pc EXCEPT ![p] = "rejected"]
               /\ trace' = [trace EXCEPT ![p] = Append(@, Event("fetchFailed", <<>>, <<>>))]
               /\ UNCHANGED diagramDefinition
          ELSE LET def == IF props[p].contentUrl THEN props[p].remote
                          ELSE props[p].content
                   interpolated == replaceVariables(contentProcessor(def, props[p].theme))
               IN  /\ pc' = [pc EXCEPT ![p] = "rendering"]
                   /\ diagramDefinition' = [diagramDefinition EXCEPT ![p] = def]
                   /\ trace' = [trace EXCEPT ![p] =
                        Append(@, Event("render", interpolated, DiagramId(props[p].id)))]
  /\ UNCHANGED <<npasses, props, container, writes>>
  /\ UNCHANGED <<legendVars, lookupVars, styleVars>>

\* A faulty fallback that renders the theme-injected text again: C5 tells
\* it from FallbackCall
FallbackCall_interpolated(p) ==
  Event("render", replaceVariables(contentProcessor(diagramDefinition[p], props[p].theme)),
        DiagramId(props[p].id))

\* The fallback call of the inner catch
FallbackCall(p) == Event("render", diagramDefinition[p], DiagramId(props[p].id))

\* await mermaidAPI.render(diagramId, interpolated) settles
RenderPrimarySettled(p) ==
  /\ pc[p] = "rendering"
  /\ \E o \in Outcomes(p) :
       LET w == Rendered(p, container, o)
           s == Styled(p, w.el)
       IN  IF o = "throw"
           THEN /\ pc' = [pc EXCEPT ![p] = "fallback"]
                /\ trace' = [trace EXCEPT ![p] =
                     @ \o <<Event("renderThrew", <<"primary">>, <<>>), FallbackCall(p)>>]
                /\ UNCHANGED <<container, writes>>
           ELSE IF w.threw
           THEN /\ pc' = [pc EXCEPT ![p] = "fallback"]
                /\ trace' = [trace EXCEPT ![p] = @ \o w.events \o <<FallbackCall(p)>>]
                /\ container' = w.el
                /\ writes' = Append(writes, [pass |-> p, op |-> "svg"])
           ELSE /\ pc' = [pc EXCEPT ![p] = "done"]
                /\ trace' = [trace EXCEPT ![p] = @ \o w.events \o s.events]
                /\ container' = s.el
                /\ writes' = Append(writes, [pass |-> p, op |-> "svg"]) \o s.dom
  /\ UNCHANGED <<npasses, props, diagramDefinition>>
  /\ UNCHANGED <<legendVars, lookupVars, styleVars>>

\* await mermaidAPI.render(diagramId, diagramDefinition) settles: a throw
\* here, or of bindFunctions, reaches the outer catch
RenderFallbackSettled(p) ==
  /\ pc[p] = "fallback"
  /\ \E o \in Outcomes(p) :
       LET w == Rendered(p, container, o)
           s == Styled(p, w.el)
       IN  IF o = "throw"
           THEN /\ trace' = [trace EXCEPT ![p] =
                     @ \o <<Event("renderThrew", <<"fallback">>, <<>>),
                            Event("innerHTML", <<"error", "fallback">>, <<>>)>>]
                /\ container' = SetInnerHTML(container, "error", <<>>, "fallback")
                /\ writes' = Append(writes, [pass |-> p, op |-> "error"])
           ELSE IF w.threw
           THEN /\ trace' = [trace EXCEPT ![p] =
                     @ \o w.events \o <<Event("innerHTML", <<"error", "bind">>, <<>>)>>]
                /\ container' = SetInnerHTML(w.el, "error", <<>>, "bind")
                /\ writes' = writes \o <<[pass |-> p, op |-> "svg"],
                                         [pass |-> p, op |-> "error"]>>
           ELSE /\ trace' = [trace EXCEPT ![p] = @ \o w.events \o s.events]
                /\ container' = s.el
                /\ writes' = Append(writes, [pass |-> p, op |-> "svg"]) \o s.dom
  /\ pc' = [pc EXCEPT ![p] = "done"]
  /\ UNCHANGED <<npasses, props, diagramDefinition>>
  /\ UNCHANGED <<legendVars, lookupVars, styleVars>>

-----------------------------------------------------------------------------
(* Inputs of the controller and the specifications.                          *)

Passes == 1..MaxPasses

\* Diagram definitions: plain, with an init block, with an init block and a
\* dashboard variable, with a variable only, with an unclosed "%%{"
Definitions ==
  {<<"g">>,
   <<"%", "%", "{", "}", "%", "%", "g">>,
   <<"%", "%", "{", "i", "}", "%", "%", "$">>,
   <<"g", "$">>,
   <<"%", "%", "{", "g">>}

\* What a pass draws and paints: the series, the options and the svg the
\* renderer produces for the diagram
Scene(models, composites, svg) == [data |-> models, composites |-> composites, svg |-> svg]

Scenes ==
  {Scene(<<SeriesModel(1, Num(5)), SeriesModel(2, Num(2))>>,
         <<Composite(<<"A">>, <<NameOf(1), NameOf(2)>>, TRUE)>>, StyleSvg),
   \* a text element named like the series, with no graphics datum bound
   Scene(<<SeriesModel(1, Num(5)), SeriesModel(2, Num(2))>>,
         <<Composite(<<"A">>, <<NameOf(1)>>, FALSE)>>,
         <<Elem("g", NameOf(1), TRUE, NameOf(1), FALSE, 1),
           Elem("text", <<>>, FALSE, NameOf(2), FALSE, 2)>>),
   Scene(<<SeriesModel(1, NaN)>>, <<>>,
         <<Elem("text", <<>>, FALSE, NameOf(1), TRUE, 1)>>)}

Props(isDark, contentUrl, content, remote, scene, maxWidth, binds) ==
  [theme |-> [isDark |-> isDark], id |-> "1",
   contentUrl |-> contentUrl, content |-> content, remote |-> remote,
   data |-> scene.data,
   options |-> DiagramOptions(scene.composites, TRUE, maxWidth),
   svg |-> scene.svg, binds |-> binds]

NoProps == Props(FALSE, FALSE, <<>>, <<>>, Scene(<<>>, <<>>, <<>>), FALSE, {})

\* The props of the single pass of Spec
PassProps ==
  {Props(isDark, contentUrl, IF contentUrl THEN <<>> ELSE def,
         IF contentUrl THEN def ELSE <<>>, scene, maxWidth, {"none", "ok", "bindThrows"}) :
     isDark \in BOOLEAN, contentUrl \in BOOLEAN, def \in Definitions,
     scene \in Scenes, maxWidth \in BOOLEAN}

\* The props of pass p of SpecRace: each pass draws its own diagram
RaceProps(p) ==
  {Props(FALSE, contentUrl, <<"g">>, <<"g">>,
         Scene(<<SeriesModel(p, Num(p))>>, <<>>,
               <<Elem("g", NameOf(p), TRUE, NameOf(p), FALSE, 1)>>),
         FALSE, {"none"}) : contentUrl \in BOOLEAN}

PassIdle ==
  /\ npasses = 0
  /\ props = [p \in Passes |-> NoProps]
  /\ pc = [p \in Passes |-> "idle"]
  /\ diagramDefinition = [p \in Passes |-> <<>>]
  /\ trace = [p \in Passes |-> <<>>]
  /\ container = Container("none", <<>>, "")
  /\ writes = <<>>

\* One render pass, over every definition, theme, scene and renderer outcome
PassInit ==
  /\ npasses = 1
  /\ props \in {[p \in Passes |-> IF p = 1 THEN pr ELSE NoProps] : pr \in PassProps}
  /\ pc = [p \in Passes |-> "idle"]
  /\ diagramDefinition = [p \in Passes |-> <<>>]
  /\ trace = [p \in Passes |-> <<>>]
  /\ container = Container("none", <<>>, "")
  /\ writes = <<>>

\* MaxPasses passes, each triggered while the earlier ones may be in flight
RaceInit ==
  /\ npasses = MaxPasses
  /\ props \in {f \in [Passes -> UNION {RaceProps(p) : p \in Passes}] :
                  \A p \in Passes : f[p] \in RaceProps(p)}
  /\ pc = [p \in Passes |-> "idle"]
  /\ diagramDefinition = [p \in Passes |-> <<>>]
  /\ trace = [p \in Passes |-> <<>>]
  /\ container = Container("none", <<>>, "")
  /\ writes = <<>>

Init == PassInit /\ LegendIdle /\ LookupIdle /\ StyleIdle

Next ==
  \/ \E p \in Passes : Trigger(p)
  \/ \E p \in Passes : LoadSettled(p)
  \/ \E p \in Passes : RenderPrimarySettled(p)
  \/ \E p \in Passes : RenderFallbackSettled(p)

Spec == Init /\ [][Next]_vars

InitRace == RaceInit /\ LegendIdle /\ LookupIdle /\ StyleIdle

SpecRace == InitRace /\ [][Next]_vars

InitLegend == LegendInit /\ LookupIdle /\ StyleIdle /\ PassIdle

NextLegend == GetLegendItems

SpecLegend == InitLegend /\ [][NextLegend]_vars

InitLookup == LookupInit /\ LegendIdle /\ StyleIdle /\ PassIdle

NextLookup == ProcessDiagramSeriesModel

SpecLookup == InitLookup /\ [][NextLookup]_vars

InitStyle == StyleInit /\ LegendIdle /\ LookupIdle /\ PassIdle

NextStyle == UpdateDiagramStyle

SpecStyle == InitStyle /\ [][NextStyle]_vars

-----------------------------------------------------------------------------
(* Properties of the composite reduction (SpecStyle).                        *)

\* The indicators as reduceModels builds them, before any relabelling
Indicators0 == reduceModels(stModels)

\* The metric name indicator i carries when composite k is reduced: the name
\* of the last earlier composite it won, or else its series label ind0[i]
NameBefore(ind0, k, i) ==
  LET won == {j \in 1..(k - 1) : stResult.steps[j].winner = i}
      last == CHOOSE j \in won : \A h \in won : h <= j
  IN  IF won = {} THEN ind0[i].metricName
      ELSE stOptions.composites[last].name

\* The member indicators of composite k, as positions, when it is reduced
MembersPresent(ind0, k) ==
  {i \in 1..Len(ind0) :
     NameBefore(ind0, k, i) \in Range(stOptions.composites[k].members)}

SetMin(S) == CHOOSE m \in S : \A n \in S : m <= n
SetMax(S) == CHOOSE m \in S : \A n \in S : n <= m

\* The value that should win composite k among the positions S, with NaN
\* counted as 0 as the reduction counts it
Extremum(ind0, k, S) ==
  IF stOptions.composites[k].showLowestValue
  THEN SetMin({numericOrZero(ind0[i]) : i \in S})
  ELSE SetMax({numericOrZero(ind0[i]) : i \in S})

\* The composite calls of the log, in order
CompositeCalls == SelectSeq(stResult.log, LAMBDA e : e.ev = "composite")

\* The winners of the steps, nulls dropped: the array reduceComposites returns
Returned ==
  SelectSeq([k \in 1..Len(stResult.steps) |-> stResult.steps[k].winner],
            LAMBDA w : w # 0)

\* C1: for every composite with a member indicator present when it is
\* reduced, the reduction returns one of these members, and its numeric
\* value (NaN counted as 0, as the reduction counts it) is the minimum of
\* the members' values when showLowestValue is set and the maximum when it
\* is not, whatever the order of the members; a composite with no member
\* present returns nothing.
C1_MinMax ==
  stResult.called =>
    \A ind0 \in {Indicators0} :
      /\ Len(stResult.steps) = Len(stOptions.composites)
      /\ \A k \in 1..Len(stResult.steps) :
           \A present \in {MembersPresent(ind0, k)} :
             LET w == stResult.steps[k].winner
             IN  IF present = {} THEN w = 0
                 ELSE /\ w \in present
                      /\ numericOrZero(ind0[w]) = Extremum(ind0, k, present)
                      /\ stResult.indicators[w].numeric = ind0[w].numeric
      /\ Len(CompositeCalls) = Len(Returned)
      /\ \A j \in 1..Len(Returned) :
           CompositeCalls[j].key = stResult.indicators[Returned[j]].metricName

\* The series values of the candidates of composite k, in candidate order
CandidateValues(k) ==
  [n \in 1..Len(stResult.steps[k].candidates) |->
     stResult.indicators[stResult.steps[k].candidates[n]].numeric]

\* C1 witness: members with the values 5, 2, 8, in this order, resolve to
\* the 2 with showLowestValue
C1_Witness ==
  /\ stResult.called
  /\ \E k \in 1..Len(stResult.steps) :
       /\ CandidateValues(k) = <<Num(5), Num(2), Num(8)>>
       /\ stOptions.composites[k].showLowestValue
       /\ stResult.indicators[stResult.steps[k].winner].numeric = Num(2)

\* The candidates of composite k that carry the winning value, in order
Extremal(ind0, k) ==
  LET cands == stResult.steps[k].candidates
  IN  SelectSeq(cands, LAMBDA i : numericOrZero(ind0[i]) = Extremum(ind0, k, Range(cands)))

C8_TaggedOnce ==
  stResult.called =>
    \A ind0 \in {Indicators0} :
      /\ \A j, k \in 1..Len(stResult.steps) :
           j < k /\ stResult.steps[j].winner # 0 =>
             stResult.steps[j].winner \notin Range(stResult.steps[k].candidates)
      /\ \A i \in 1..Len(stResult.indicators) :
           stResult.indicators[i].isComposite =>
             stResult.indicators[i].originalName = ind0[i].metricName

-----------------------------------------------------------------------------
(* Properties of the lookup (SpecLookup).                                    *)

\* The five selections on the svg as it was handed over; the first is what
\* the data-id lookup looks for, the element whose data-id is the key
Selection(n) ==
  CASE n = 1 -> Matching(lkSvg, LAMBDA e : e.dataId = lkIndicator.metricName)
    [] n = 2 -> selectElementByEdgeLabel(lkSvg, lkIndicator.metricName)
    [] n = 3 -> selectDivElementByAlias(lkSvg, lkIndicator.metricName)
    [] n = 4 -> selectTextElementByAlias(lkSvg, lkIndicator.metricName)
    [] n = 5 -> selectTextElementContainingAlias(lkSvg, lkIndicator.metricName)

NonEmpty == {n \in 1..5 : Selection(n) # <<>>}

\* C3: the painter of exactly the first non-empty lookup is applied and no
\* other; with all five selections empty the svg is left as it was and no
\* error is raised.
C3_FirstMatchWins ==
  lkResult.called =>
    IF NonEmpty = {}
    THEN lkResult.fired = <<>> /\ lkResult.svg = lkSvg /\ ~lkResult.threw
    ELSE lkResult.fired = <<SetMin(NonEmpty)>>

\* The same, restricted to the metric names that hold no double quote
WellFormedKeysFirstMatchWins ==
  Quote \notin Range(lkIndicator.metricName) => C3_FirstMatchWins

-----------------------------------------------------------------------------
(* Properties of the legend (SpecLegend).                                    *)

Included(s) == \E n \in 1..Len(legendItems.items) : legendItems.items[n].label = s.label

AllNull(s) == s.data # <<>> /\ \A n \in 1..Len(s.data) : s.data[n].null

SumsToZero(s) == SumSeq([n \in 1..Len(s.data) |-> OrZero(s.data[n])]) = 0

\* C6: a series is left out when hideEmpty is set and every value is null,
\* and when hideZero is set and the values sum to 0; every other series is
\* in the legend, whatever the flags.
C6_LegendRule ==
  legendItems.called =>
    \A i \in 1..Len(data) :
      LET s == data[i]
          hidden == \/ legend.hideEmpty /\ AllNull(s)
                    \/ legend.hideZero /\ SumsToZero(s)
      IN  Included(s) <=> ~hidden
-----------------------------------------------------------------------------
(* Properties of a render pass (Spec).                                       *)

\* The positions of the events ev in the trace of pass p
Pos(p, ev) == {i \in 1..Len(trace[p]) : trace[p][i].ev = ev}

\* The events ev of pass p, in order
EventsOf(p, ev) == SelectSeq(trace[p], LAMBDA e : e.ev = ev)

\* Every position of A lies before every position of B
Before(A, B) == \A i \in A, j \in B : i < j

\* The render call of pass p threw: which is "primary" or "fallback"
RenderThrew(p, which) ==
  \E i \in Pos(p, "renderThrew") : trace[p][i].key = <<which>>

\* The definition pass p is configured with, inline or remote
Original(p) == IF props[p].contentUrl THEN props[p].remote ELSE props[p].content

\* C4: when the fetch of the remote definition answers with a non-success
\* status, the pass makes no render call and no Style Resolver call, and
\* the container holds the inline error markup.
C4_FetchFailureSurfaced ==
  \A p \in Passes :
    Pos(p, "fetchFailed") # {} =>
      /\ Pos(p, "render") = {}
      /\ Pos(p, "updateDiagramStyle") = {}
      /\ container.html = "error"

\* C5: no pass makes more than two render calls; when the primary render
\* throws there is exactly one more render call, with the definition as
\* configured and the id of the first call; when the fallback throws too
\* the container holds the error markup with the caught error and the
\* Style Resolver is not called.
C5_OneFallback ==
  \A p \in Passes :
    \A renders \in {EventsOf(p, "render")} :
      /\ Len(renders) <= 2
      /\ RenderThrew(p, "primary") =>
           /\ Len(renders) = 2
           /\ renders[2].key = Original(p)
           /\ renders[2].id = renders[1].id
      /\ RenderThrew(p, "fallback") =>
           /\ RenderThrew(p, "primary") \/ Pos(p, "bindFunctions") # {}
           /\ Len(renders) = 2
           /\ pc[p] = "done"
           /\ container.html = "error"
           /\ container.err = "fallback"
           /\ Pos(p, "updateDiagramStyle") = {}

\* C5 witness: both renders of a pass threw, the first one on a text that
\* differs from the definition
C5_Witness ==
  \E p \in Passes :
    /\ RenderThrew(p, "primary")
    /\ RenderThrew(p, "fallback")
    /\ EventsOf(p, "render")[1].key # EventsOf(p, "render")[2].key
    /\ container.html = "error"

\* The directive contentProcessor synthesizes for pass p
Directive(p) == customTheme(props[p].theme)

\* C7 as stated: a definition with an init block reaches the primary
\* render unmodified; any other has the directive prepended.
C7_Unmodified ==
  \A p \in Passes :
    Pos(p, "render") # {} =>
      \A text \in {EventsOf(p, "render")[1].key} :
        IF HasInitBlock(Original(p))
        THEN text = Original(p)
        ELSE /\ Len(text) = Len(Directive(p)) + Len(Original(p))
             /\ SubSeq(text, 1, Len(Directive(p))) = Directive(p)

\* C7 amended: the text of the primary render of a definition with an init
\* block is the definition with its dashboard variables interpolated and
\* nothing else changed: no theme variables merged, no directive prepended;
\* a definition without one has the directive prepended to its
\* interpolated text.
C7_InterpolatedOnly ==
  \A p \in Passes :
    Pos(p, "render") # {} =>
      \A text \in {EventsOf(p, "render")[1].key} :
        IF HasInitBlock(Original(p))
        THEN text = replaceVariables(Original(p))
        ELSE /\ Len(text) = Len(Directive(p)) + Len(Original(p))
             /\ SubSeq(text, 1, Len(Directive(p))) = Directive(p)
             /\ SubSeq(text, Len(Directive(p)) + 1, Len(text)) =
                  replaceVariables(Original(p))

\* C7 witness: a definition with an init block and a dashboard variable has
\* reached the primary render, interpolated
C7_Witness ==
  \E p \in Passes :
    /\ Pos(p, "render") # {}
    /\ HasInitBlock(Original(p))
    /\ "$" \in Range(Original(p))
    /\ EventsOf(p, "render")[1].key # Original(p)
    /\ EventsOf(p, "render")[1].key = replaceVariables(Original(p))

\* The positions of the calls the Style Resolver of pass p makes
Painting(p) == Pos(p, "direct") \cup Pos(p, "reduceComposites") \cup Pos(p, "composite")

\* C9: a pass starts with the loading of the definition and no render call
\* begins before it has settled; the Style Resolver is called after a
\* render has settled and its svg is in the container, with no render call
\* in between; in the Style Resolver every direct indicator is painted,
\* under its series label, before the composites are reduced, the
\* composites are painted after that, and the custom style is injected last.
C9_StageOrder ==
  \A p \in Passes :
    \A t \in {trace[p]} :
      /\ t # <<>> => t[1].ev = "loadDiagramDefinition"
      /\ Before(Pos(p, "loadDiagramDefinition"), Pos(p, "render"))
      /\ \A u \in Pos(p, "updateDiagramStyle") :
           \E r \in Pos(p, "render"), w \in Pos(p, "innerHTML") :
             /\ r < w /\ w < u
             /\ t[w].key = <<"svg">>
             /\ \A i \in (w + 1)..(u - 1) : t[i].ev = "bindFunctions"
      /\ Cardinality(Pos(p, "updateDiagramStyle")) <= 1
      /\ Before(Pos(p, "updateDiagramStyle"), Painting(p) \cup Pos(p, "injectCustomStyle"))
      /\ Painting(p) \cup Pos(p, "injectCustomStyle") # {} => Pos(p, "updateDiagramStyle") # {}
      /\ Before(Pos(p, "direct"), Pos(p, "reduceComposites"))
      /\ Before(Pos(p, "reduceComposites"), Pos(p, "composite"))
      /\ Pos(p, "composite") # {} => Pos(p, "reduceComposites") # {}
      /\ Before(Painting(p), Pos(p, "injectCustomStyle"))
      /\ Pos(p, "reduceComposites") # {} =>
           \A direct \in {EventsOf(p, "direct")}, indicators \in {reduceModels(props[p].data)} :
             /\ Len(direct) = Len(indicators)
             /\ \A i \in 1..Len(direct) : direct[i].key = indicators[i].metricName
      /\ \A i \in Pos(p, "injectCustomStyle") :
           /\ i = Len(t)
           /\ Pos(p, "reduceComposites") # {}

\* C9 witness: a pass has loaded, rendered, written, painted direct and
\* composite indicators and injected the style
C9_Witness ==
  \E p \in Passes :
    /\ pc[p] = "done"
    /\ Cardinality(Pos(p, "direct")) >= 2
    /\ Pos(p, "composite") # {}
    /\ Pos(p, "injectCustomStyle") # {}
    /\ container.html = "svg"

-----------------------------------------------------------------------------
(* Properties of overlapping render passes (SpecRace).                       *)

\* The writes of pass p to the container, as positions of writes
WritesOf(p) == {i \in 1..Len(writes) : writes[i].pass = p}

\* The container holds what pass p wrote: its error markup, or the svg of
\* its scene
Shows(p, op) ==
  IF op = "error" THEN container.html = "error"
  ELSE /\ container.html = "svg"
       /\ Len(container.svg) = Len(props[p].svg)
       /\ \A i \in 1..Len(container.svg) : container.svg[i].dataId = props[p].svg[i].dataId
       /\ op = "style" <=> \E i \in 1..Len(container.svg) :
                             container.svg[i].text # props[p].svg[i].text

\* C10: a pass is not stopped by a later one: every pass one of whose
\* renders has resolved has written its svg to the one container, whatever
\* the other passes did; the container holds what the last write put there, whichever
\* pass was triggered first; and the Style Resolver of a pass works on the
\* svg the same pass has just written, no other write in between.
C10_LastWriteWins ==
  /\ \A p \in Passes :
       /\ pc[p] = "done" /\ ~RenderThrew(p, "fallback") =>
            \E i \in WritesOf(p) : writes[i].op = "svg"
       /\ Cardinality(Pos(p, "innerHTML")) =
            Cardinality({i \in WritesOf(p) : writes[i].op # "style"})
  /\ writes # <<>> => Shows(writes[Len(writes)].pass, writes[Len(writes)].op)
  /\ writes = <<>> => container.html = "none"
  /\ \A i \in 1..Len(writes) :
       writes[i].op = "style" =>
         /\ i > 1
         /\ writes[i - 1] = [pass |-> writes[i].pass, op |-> "svg"]

\* C10 witness: both passes have rendered and written, and the pass that
\* was triggered first wrote last: the container holds its diagram
C10_Witness ==
  /\ pc[1] = "done"
  /\ pc[2] = "done"
  /\ WritesOf(2) # {}
  /\ writes[Len(writes)].pass = 1
  /\ Shows(1, "style")

=============================================================================
